---- MODULE Spec2Model ----
(***************************************************************************)
(* Abbreviation tracker of the Emmet Sublime Text plugin (tracker.py).     *)
(*                                                                         *)
(* One view (document) is modelled: its text, its caret, the presentation  *)
(* artifacts the tracker puts into it (region decoration, phantoms, the    *)
(* popup), the module-level registry `cache` and the RegionTracker object  *)
(* most recently built by start_tracking.  Every public function and every *)
(* RegionTracker method is an operator on a "world" record that is applied *)
(* in program order, so a handler's nested calls belong to its action.     *)
(*                                                                         *)
(* Spec is the whole machine.  The properties are checked under parts of   *)
(* it: SpecTrack and SpecValid (the change and selection handlers),        *)
(* SpecPreview and SpecSetting (show_preview on what is typed), SpecLife   *)
(* (a tracker from start_tracking to stop_tracking), SpecMarks (markers    *)
(* and previews put up and taken down), SpecUpdate (update_abbreviation),  *)
(* SpecSelect (selection changes), SpecStart (start_tracking and its       *)
(* keyword arguments) and SpecSimple (the classifier of parsed trees).     *)
(* The grammar parsers and the expansion engine are collaborators: the     *)
(* parsers are stood in for by a two-character grammar (names and the      *)
(* child operator ">") whose outcome depends on the text alone, the        *)
(* expansion is left uninterpreted.                                        *)
(***************************************************************************)
EXTENDS Integers, Sequences, FiniteSets, TLC

\* ---------------------------------------------------------------- bounds
MaxLen == 3        \* longest document text
MaxEdit == 2       \* most characters removed by one edit
MaxDrift == 1      \* how far a region bound may leave the document
MaxKids == 2       \* most top-level nodes of an enumerated markup tree

Chars == {"d", ">"}                    \* characters the user types
MinPos == 0 - MaxDrift
MaxPos == MaxLen + MaxDrift

\* ------------------------------------------------------- python values
None == [py_none |-> TRUE]
EmptyDict == <<>>
Falsy(v) == v = None \/ v = EmptyDict

ABBR_REGION_ID == "emmet-abbreviation"
ABBR_PREVIEW_ID == "emmet-abbreviation-preview"
VIEW_ID == 1

Min(x, y) == IF x < y THEN x ELSE y
Max(x, y) == IF x > y THEN x ELSE y

VARIABLES
  text,            \* the view's buffer, a sequence of characters
  caret,           \* the view's caret, utils.get_caret(view)
  view_syntax,     \* what emmet.get_options resolves for this view
  preview_setting, \* emmet.get_settings('abbreviation_preview', True)
  view_regions,    \* key -> regions drawn by view.add_regions
  view_phantoms,   \* the keys under which phantoms are shown in the view
  view_popup,      \* whether the view shows a popup
  cache,           \* the registry: set of view ids that have a tracker
  tracker,         \* the RegionTracker object last built (None before)
  op,              \* the operation performed last, with its arguments
  ret,             \* what it returned: "None", "tracker", or the exception
  calls,           \* the calls it made, in program order
  rendered,        \* the content it handed to the popup or the phantom
  abbr_tree,       \* input of the classifier run (is_simple_markup_abbreviation)
  simple_result    \* its result

vars == <<text, caret, view_syntax, preview_setting, view_regions,
          view_phantoms, view_popup, cache, tracker, op, ret, calls, rendered,
          abbr_tree, simple_result>>

\* ------------------------------------------------------------- sublime
Region(a, b) == [a |-> a, b |-> b]
begin(r) == Min(r.a, r.b)
end(r) == Max(r.a, r.b)

Clamp(p, txt) == Max(0, Min(p, Len(txt)))

\* view.substr(region): the text between the region's ends, inside the buffer
substr(txt, r) == SubSeq(txt, Clamp(begin(r), txt) + 1, Clamp(end(r), txt))

\* view.erase(edit, region)
erase(txt, r) ==
  SubSeq(txt, 1, Clamp(begin(r), txt)) \o SubSeq(txt, Clamp(end(r), txt) + 1, Len(txt))

\* dict without one key (view.erase_regions / view.erase_phantoms)
Without(f, key) == [k \in (DOMAIN f) \ {key} |-> f[k]]
\* dict with one key set
With(f, key, val) == [k \in (DOMAIN f) \cup {key} |-> IF k = key THEN val ELSE f[k]]

\* ------------------------------------------------- external collaborators
\* emmet.get_options(view, pos, True): the syntax configuration of the view
get_options(syntax) ==
  [type |-> IF syntax = "css" THEN "stylesheet" ELSE "markup", syntax |-> syntax]

\* A node name is None or a string; Str wraps the characters of a string.
Str(chars) == [str |-> chars]

\* A parsed node: name (None or Str), attributes, child nodes.
Node(name, attributes, children) ==
  [name |-> name, attributes |-> attributes, children |-> children]

\* Positions (0-based) of abbr where the markup grammar expects an element:
\* the beginning, and right after every child operator ">".
ElementStarts(abbr) == {p \in 0..Len(abbr) : p = 0 \/ abbr[p] = ">"}

\* Element starts where no element name follows: the scanner fails there.
ScanFailures(abbr) ==
  {p \in ElementStarts(abbr) : p = Len(abbr) \/ abbr[p + 1] = ">"}

LeastOf(S) == CHOOSE p \in S : \A q \in S : p <= q

\* The element that starts at p, with the elements nested under it by ">".
RECURSIVE ElementAt(_, _)
ElementAt(abbr, p) ==
  LET stops == {q \in (p + 1)..Len(abbr) : abbr[q] = ">"}
  IN  IF stops = {}
      THEN Node(Str(SubSeq(abbr, p + 1, Len(abbr))), <<>>, <<>>)
      ELSE Node(Str(SubSeq(abbr, p + 1, LeastOf(stops) - 1)), <<>>,
                <<ElementAt(abbr, LeastOf(stops))>>)

\* emmet.abbreviation.parse: a tree, or ScannerException(message, pos)
markup_parse(abbr) ==
  IF ScanFailures(abbr) # {}
  THEN [raised |-> "ScannerException",
        message |-> <<"Unexpected character", "at", LeastOf(ScanFailures(abbr))>>,
        pos |-> LeastOf(ScanFailures(abbr))]
  ELSE [raised |-> "no", tree |-> [children |-> <<ElementAt(abbr, 0)>>]]

\* emmet.css_abbreviation.parse: ">" is no token of the stylesheet grammar
stylesheet_parse(abbr) ==
  LET bad == {p \in 0..(Len(abbr) - 1) : abbr[p + 1] = ">"}
  IN  IF bad # {}
      THEN [raised |-> "TokenScannerException",
            message |-> <<"Unexpected token">>,
            pos |-> LeastOf(bad)]
      ELSE [raised |-> "no", tree |-> [children |-> <<Node(Str(abbr), <<>>, <<>>)>>]]

\* emmet.expand(parsed_abbr, preview_config): the expansion, left uninterpreted
expand(parsed_abbr, preview_config) ==
  [expanded |-> parsed_abbr, config |-> preview_config]

\* -------------------------------------------------------- classification
Alpha == {"d", "i", "v", "h"}

\* an isalpha that looks at the first character only
isalpha_first(name) == Len(name.str) > 0 /\ name.str[1] \in Alpha

\* str.isalpha(): non-empty and every character alphabetic
isalpha(name) ==
  Len(name.str) > 0 /\ \A i \in 1..Len(name.str) : name.str[i] \in Alpha

\* python truthiness of a node name: None and "" are falsy
NameFalsy(name) == name = None \/ name = Str(<<>>)

\* a classifier that does not look below the single top-level node
is_simple_flat(abbr) ==
  IF Len(abbr.children) = 1
  THEN LET first == abbr.children[1]
       IN  NameFalsy(first.name) \/ isalpha(first.name)
  ELSE Len(abbr.children) = 0

is_simple_markup_abbreviation(abbr) ==
  IF Len(abbr.children) = 1 /\ Len(abbr.children[1].children) = 0
  THEN LET first == abbr.children[1]
       IN  NameFalsy(first.name) \/ isalpha(first.name)
  ELSE Len(abbr.children) = 0

\* ------------------------------------------------------- RegionTracker
\* The world a call works on: the view, the registry and the tracker object.
World ==
  [text |-> text, caret |-> caret, regions |-> view_regions,
   phantoms |-> view_phantoms, popup |-> view_popup,
   cache |-> cache, tracker |-> tracker, calls |-> <<>>, ret |-> "None",
   rendered |-> None]

Called(w, name) == [w EXCEPT !.calls = Append(@, name)]

\* a constructor that ignores the forced argument
RegionTracker_unforced(start, pos, length, forced) ==
  [last_pos |-> pos, last_length |-> length, forced |-> FALSE,
   region |-> Region(start, pos), config |-> EmptyDict,
   abbreviation |-> EmptyDict, offset |-> 0, forced_indicator |-> "None",
   has_popup_preview |-> FALSE, phantom_preview |-> "None"]

\* RegionTracker.__init__
RegionTracker(start, pos, length, forced) ==
  [last_pos |-> pos, last_length |-> length, forced |-> forced,
   region |-> Region(start, pos), config |-> EmptyDict,
   abbreviation |-> EmptyDict, offset |-> 0, forced_indicator |-> "None",
   has_popup_preview |-> FALSE, phantom_preview |-> "None"]

\* shift that forgets to move the end
shift_end_kept(t, offset) ==
  [t EXCEPT !.region = Region(t.region.a + offset, t.region.b)]

\* RegionTracker.shift
shift(t, offset) ==
  [t EXCEPT !.region = Region(t.region.a + offset, t.region.b + offset)]

\* RegionTracker.extend
extend(t, size) ==
  [t EXCEPT !.region = Region(t.region.a, t.region.b + size)]

\* is_valid_range that accepts an empty region whether forced or not
is_valid_range_unforced(t) == t.region.a <= t.region.b

\* RegionTracker.is_valid_range
is_valid_range(t) ==
  t.region.a < t.region.b \/ (t.region.a = t.region.b /\ t.forced)

\* a pointer line that is one dash short
pointer_short(pos) == [i \in 1..(pos - 1) |-> "-"] \o <<"^">>

\* '%s^' % ('-' * err.pos, )
pointer(pos) == [i \in 1..pos |-> "-"] \o <<"^">>

\* a classification that treats stylesheet trees as never simple
simple_of_markup_only(type, tree) ==
  IF type = "stylesheet" THEN FALSE ELSE is_simple_markup_abbreviation(tree)

\* The 'simple' flag update_abbreviation gives a successfully parsed tree
simple_of(type, tree) ==
  IF type = "stylesheet" THEN TRUE ELSE is_simple_markup_abbreviation(tree)

\* a parse state that is left empty when the parser fails
parse_state_dropping(abbr, config) ==
  LET parsed == IF config.type = "stylesheet"
                THEN stylesheet_parse(abbr) ELSE markup_parse(abbr)
      preview_config == [type |-> config.type, syntax |-> config.syntax,
                         preview |-> TRUE]
  IN  IF abbr = <<>> \/ parsed.raised # "no" THEN None
      ELSE [abbr |-> abbr, simple |-> simple_of(config.type, parsed.tree),
            preview |-> expand(parsed.tree, preview_config)]

\* The abbreviation record update_abbreviation builds from the text abbr
\* under the configuration config.
parse_state(abbr, config) ==
  LET parsed == IF config.type = "stylesheet"
                THEN stylesheet_parse(abbr) ELSE markup_parse(abbr)
      simple == simple_of(config.type, parsed.tree)
      preview_config == [type |-> config.type, syntax |-> config.syntax,
                         preview |-> TRUE]
  IN  IF abbr = <<>> THEN None
      ELSE IF parsed.raised = "no"
      THEN [abbr |-> abbr, simple |-> simple,
            preview |-> expand(parsed.tree, preview_config)]
      ELSE [abbr |-> abbr,
            error |-> [message |-> parsed.message, pos |-> parsed.pos,
                       pointer |-> pointer(parsed.pos)]]

\* a configuration that is resolved from the view on every call
config_of_fresh(t) == get_options(view_syntax)

\* The configuration update_abbreviation works with: the tracker's, or the
\* one resolved from the view when the tracker has none
config_of(t) == IF Falsy(t.config) THEN get_options(view_syntax) ELSE t.config

\* RegionTracker.update_abbreviation
update_abbreviation(w0) ==
  LET w == Called(w0, "update_abbreviation")
      t == w.tracker
      spanned == substr(w.text, t.region)
      abbr == IF t.offset # 0
              THEN SubSeq(spanned, t.offset + 1, Len(spanned)) ELSE spanned
      config == config_of(t)
  IN  [w EXCEPT !.tracker.config = config,
                !.tracker.abbreviation = parse_state(abbr, config)]

\* RegionTracker.mark
mark(w0) ==
  LET w == Called(w0, "mark")
      t == w.tracker
      w1 == [w EXCEPT !.regions = With(Without(@, ABBR_REGION_ID),
                                       ABBR_REGION_ID, <<t.region>>)]
  IN  IF t.forced
      THEN [w1 EXCEPT !.tracker.forced_indicator = "PhantomSet",
                      !.phantoms = @ \cup {ABBR_REGION_ID}]
      ELSE w1

\* a hide_preview that closes the popup and forgets the phantom preview
hide_preview_popup_only(w0) ==
  LET w == Called(w0, "hide_preview")
  IN  IF w.tracker.has_popup_preview
      THEN [Called(w, "view.hide_popup") EXCEPT
              !.popup = FALSE, !.tracker.has_popup_preview = FALSE]
      ELSE w

\* RegionTracker.hide_preview
hide_preview(w0) ==
  LET w == Called(w0, "hide_preview")
      w1 == IF w.tracker.has_popup_preview
            THEN [Called(w, "view.hide_popup") EXCEPT
                    !.popup = FALSE, !.tracker.has_popup_preview = FALSE]
            ELSE w
  IN  IF w1.tracker.phantom_preview # "None"
      THEN [w1 EXCEPT !.phantoms = @ \ {ABBR_PREVIEW_ID},
                      !.tracker.phantom_preview = "None"]
      ELSE w1

\* RegionTracker.unmark
unmark(w0) ==
  LET w == Called(w0, "unmark")
  IN  hide_preview([w EXCEPT !.regions = Without(@, ABBR_REGION_ID),
                             !.phantoms = @ \ {ABBR_REGION_ID}])

\* re.sub(r'\s+at\s\d+$', '', message): drop a trailing " at <N>"
strip_at(message) ==
  IF Len(message) >= 3 /\ message[Len(message) - 1] = "at"
  THEN SubSeq(message, 1, Len(message) - 2) ELSE message

\* The as_phantom the call works with: the argument, or by default whether
\* the configuration is a stylesheet one.
as_phantom_of(t, arg) ==
  IF arg = "None"
  THEN (~Falsy(t.config)) /\ t.config.type = "stylesheet"
  ELSE arg = "True"

\* content resolved without looking at the 'simple' flag
preview_content_always(t, as_phantom) ==
  IF "error" \in DOMAIN t.abbreviation
  THEN [kind |-> "error", pointer |-> t.abbreviation.error.pointer,
        message |-> strip_at(t.abbreviation.error.message)]
  ELSE IF t.config.type # "stylesheet"
  THEN [kind |-> "markup-preview", snippet |-> t.abbreviation.preview]
  ELSE [kind |-> "stylesheet-preview", snippet |-> t.abbreviation.preview]

\* What show_preview resolves as content (None: nothing to render)
preview_content(t, as_phantom) ==
  IF "error" \in DOMAIN t.abbreviation
  THEN [kind |-> "error", pointer |-> t.abbreviation.error.pointer,
        message |-> strip_at(t.abbreviation.error.message)]
  ELSE IF t.forced \/ as_phantom \/ ~t.abbreviation.simple
  THEN IF t.config.type # "stylesheet"
       THEN [kind |-> "markup-preview", snippet |-> t.abbreviation.preview]
       ELSE [kind |-> "stylesheet-preview", snippet |-> t.abbreviation.preview]
  ELSE None

\* previews that are enabled whatever the setting says
preview_enabled_always == TRUE

\* emmet.get_settings('abbreviation_preview', True), read at every call
preview_enabled == preview_setting

\* RegionTracker.show_preview
show_preview(w0, arg) ==
  LET w == Called(w0, "show_preview")
      t == w.tracker
      as_phantom == as_phantom_of(t, arg)
      content == preview_content(t, as_phantom)
  IN  IF ~preview_enabled THEN w
      ELSE IF t.abbreviation = None
      THEN [w EXCEPT !.ret = "TypeError"]   \* 'error' in None
      ELSE IF t.abbreviation = EmptyDict
      THEN [w EXCEPT !.ret = "KeyError"]    \* {}['simple'], {}['preview']
      ELSE IF content = None THEN hide_preview(w)
      ELSE IF as_phantom
      THEN [w EXCEPT !.tracker.phantom_preview = "PhantomSet",
                     !.phantoms = @ \cup {ABBR_PREVIEW_ID},
                     !.rendered = content]
      ELSE [Called(w, "view.show_popup") EXCEPT
              !.tracker.has_popup_preview = TRUE,
              !.popup = TRUE, !.rendered = content]

\* ------------------------------------------------------ module functions
\* get_tracker: cache.get(view.id())
get_tracker(w) == IF VIEW_ID \in w.cache THEN w.tracker ELSE None

\* Where the caret is after the characters [p, p+n) were removed
CaretAfterDelete(c, p, n) ==
  IF c >= p + n THEN c - n ELSE IF c > p THEN p ELSE c

\* a stop_tracking that removes the text of a forced tracker with or without
\* an edit
stop_tracking_erasing(w0, edit) ==
  LET w == Called(w0, "stop_tracking")
      w1 == unmark(w)
      r == w1.tracker.region
      lo == Clamp(begin(r), w1.text)
      hi == Clamp(end(r), w1.text)
      w2 == IF w1.tracker.forced
            THEN [Called(w1, "view.erase") EXCEPT
                    !.text = erase(w1.text, r),
                    !.caret = CaretAfterDelete(w1.caret, lo, hi - lo)]
            ELSE w1
  IN  IF VIEW_ID \in w.cache
      THEN [w2 EXCEPT !.cache = @ \ {VIEW_ID}]
      ELSE w

\* stop_tracking(view, edit)
stop_tracking(w0, edit) ==
  LET w == Called(w0, "stop_tracking")
      w1 == unmark(w)
      r == w1.tracker.region
      lo == Clamp(begin(r), w1.text)
      hi == Clamp(end(r), w1.text)
      w2 == IF w1.tracker.forced /\ edit # "None"
            THEN [Called(w1, "view.erase") EXCEPT
                    !.text = erase(w1.text, r),
                    !.caret = CaretAfterDelete(w1.caret, lo, hi - lo)]
            ELSE w1
  IN  IF VIEW_ID \in w.cache
      THEN [w2 EXCEPT !.cache = @ \ {VIEW_ID}]
      ELSE w

\* The span arithmetic with an insertion at the region's start left out
apply_delta_strict(t, last_pos, delta) ==
  LET region == t.region
  IN  IF delta < 0
      THEN IF last_pos = region.a THEN shift(t, delta)
           ELSE IF region.a < last_pos /\ last_pos <= region.b
           THEN extend(t, delta) ELSE t
      ELSE IF delta > 0 /\ region.a < last_pos /\ last_pos <= region.b
      THEN extend(t, delta) ELSE t

\* The span arithmetic of handle_change: the tracker after the length
\* difference delta was applied with the caret last seen at last_pos.
apply_delta(t, last_pos, delta) ==
  LET region == t.region
  IN  IF delta < 0
      THEN IF last_pos = region.a THEN shift(t, delta)
           ELSE IF region.a < last_pos /\ last_pos <= region.b
           THEN extend(t, delta) ELSE t
      ELSE IF delta > 0 /\ region.a <= last_pos /\ last_pos <= region.b
      THEN extend(t, delta) ELSE t

\* the test with the check against the region's end left out
outside_start_only(last_pos, region) == last_pos < region.a

\* handle_change's test that the caret last seen was outside the region
outside(last_pos, region) == last_pos < region.a \/ last_pos > region.b

\* a handle_change that keeps the tracker whatever its region has become
handle_change_unchecked(w0) ==
  LET w == Called(w0, "handle_change")
      t == w.tracker
      t1 == [t EXCEPT !.last_length = Len(w.text), !.last_pos = w.caret]
      w2 == [w EXCEPT !.tracker = apply_delta(t1, t.last_pos,
                                              Len(w.text) - t.last_length)]
  IN  IF get_tracker(w) = None THEN w
      ELSE IF outside(t.last_pos, t.region) THEN stop_tracking(w, "None")
      ELSE [mark(update_abbreviation(w2)) EXCEPT !.ret = "tracker"]

\* handle_change(view)
handle_change(w0) ==
  LET w == Called(w0, "handle_change")
      t == w.tracker
      last_pos == t.last_pos
      region == t.region
      length == Len(w.text)
      pos == w.caret
      delta == length - t.last_length
      t1 == [t EXCEPT !.last_length = length, !.last_pos = pos]
      t2 == apply_delta(t1, last_pos, delta)
      w2 == [w EXCEPT !.tracker = t2]
  IN  IF get_tracker(w) = None THEN w
      ELSE IF outside(last_pos, region) THEN stop_tracking(w, "None")
      ELSE IF ~is_valid_range(t2) THEN stop_tracking(w2, "None")
      ELSE [mark(update_abbreviation(w2)) EXCEPT !.ret = "tracker"]

\* a handle_selection_change that queries the view even when a caret is passed
handle_selection_change_queried(w0, given, c) ==
  LET w == Called(w0, "handle_selection_change")
  IN  IF get_tracker(w) # None
      THEN [w EXCEPT !.tracker.last_pos = w.caret, !.ret = "tracker"]
      ELSE w

\* handle_selection_change(view, caret): given tells whether caret was passed
handle_selection_change(w0, given, c) ==
  LET w == Called(w0, "handle_selection_change")
  IN  IF get_tracker(w) # None
      THEN [w EXCEPT !.tracker.last_pos = IF given THEN c ELSE w.caret,
                     !.ret = "tracker"]
      ELSE w

\* start_tracking(view, start, pos, forced=..., config=..., offset=...)
start_tracking(w0, start, pos, forced, config, offset) ==
  LET w == Called(w0, "start_tracking")
      built == [RegionTracker(start, pos, Len(w.text), forced) EXCEPT
                  !.config = config, !.offset = offset]
      w1 == mark(update_abbreviation([w EXCEPT !.tracker = built]))
  IN  [w1 EXCEPT !.cache = @ \cup {VIEW_ID}, !.ret = "tracker"]

\* kwargs.get(key, default); kwargs is a record of the keywords passed
KwGet(kwargs, key, default) ==
  IF key \in DOMAIN kwargs THEN kwargs[key] ELSE default

\* start_tracking(view, start, pos, **kwargs)
start_tracking_kw(w0, start, pos, kwargs) ==
  start_tracking(w0, start, pos, KwGet(kwargs, "forced", FALSE),
                 KwGet(kwargs, "config", None), KwGet(kwargs, "offset", 0))

\* ----------------------------------------------------------- the machine
Init ==
  /\ text = <<>>
  /\ caret = 0
  /\ view_syntax \in {"html", "css"}
  /\ preview_setting \in BOOLEAN
  /\ view_regions = EmptyDict
  /\ view_phantoms = {}
  /\ view_popup = FALSE
  /\ cache = {}
  /\ tracker = None
  /\ op = [name |-> "init"]
  /\ ret = "None"
  /\ calls = <<>>
  /\ rendered = None
  /\ abbr_tree = [children |-> <<>>]
  /\ simple_result = "None"

\* The state a call leaves behind.  A tracker object that is in the registry
\* neither before nor after the call is unreachable and is dropped.
Result(w) ==
  /\ text' = w.text
  /\ caret' = w.caret
  /\ view_regions' = w.regions
  /\ view_phantoms' = w.phantoms
  /\ view_popup' = w.popup
  /\ cache' = w.cache
  /\ tracker' = IF cache = {} /\ w.cache = {} THEN None ELSE w.tracker
  /\ ret' = w.ret
  /\ calls' = w.calls
  /\ rendered' = w.rendered
  /\ UNCHANGED <<view_syntax, preview_setting, abbr_tree, simple_result>>

\* A region bound stays within MaxDrift of the document
InDrift(t) ==
  IF t = None THEN TRUE ELSE t.region.a >= MinPos /\ t.region.b <= MaxPos

\* What the registered tracker held when a handler was entered (None if the
\* registry was empty); kept with the operation for the properties to refer to.
Before ==
  IF VIEW_ID \in cache
  THEN [region |-> tracker.region, last_pos |-> tracker.last_pos,
        last_length |-> tracker.last_length]
  ELSE None

\* The host changes the buffer and then delivers the modification to
\* handle_change, as it does after every edit.
Edited(newtext, newcaret, edit) ==
  LET w == handle_change([World EXCEPT !.text = newtext, !.caret = newcaret])
  IN  /\ InDrift(w.tracker)
      /\ Result(w)
      /\ op' = [name |-> "handle_change", edit |-> edit, before |-> Before]

\* The user (or another plugin) inserts the characters s at position p
InsertText ==
  \E p \in 0..Len(text), n \in 1..MaxEdit :
    \E s \in [1..n -> Chars] :
      /\ Len(text) + n <= MaxLen
      /\ Edited(SubSeq(text, 1, p) \o s \o SubSeq(text, p + 1, Len(text)),
                IF p <= caret THEN caret + n ELSE caret,
                [kind |-> "insert", pos |-> p])

\* ... removes the n characters [p, p+n)
DeleteText ==
  \E p \in 0..Len(text), n \in 1..MaxEdit :
    /\ p + n <= Len(text)
    /\ Edited(SubSeq(text, 1, p) \o SubSeq(text, p + n + 1, Len(text)),
              CaretAfterDelete(caret, p, n),
              [kind |-> "delete", pos |-> p])

\* ... overwrites the character at p by another one (the length stays)
ReplaceText ==
  \E p \in 0..(Len(text) - 1), c \in Chars :
    /\ text[p + 1] # c
    /\ Edited([text EXCEPT ![p + 1] = c], caret,
              [kind |-> "replace", pos |-> p])

\* The caret moves to p and the host delivers handle_selection_change,
\* with the caret passed (given) or left for the handler to query.
MoveCaret ==
  \E p \in 0..Len(text), given \in BOOLEAN :
    /\ p # caret
    /\ Result(handle_selection_change([World EXCEPT !.caret = p], given, p))
    /\ op' = [name |-> "handle_selection_change"]

\* A caller passes handle_selection_change a caret of its own, which need
\* not be where the view's caret is, or leaves the caret to be queried
SelectionChanged ==
  \E c \in 0..Len(text), given \in BOOLEAN :
    /\ Result(handle_selection_change(World, given, c))
    /\ op' = IF given
             THEN [name |-> "handle_selection_change", caret |-> c]
             ELSE [name |-> "handle_selection_change"]

\* start_tracking is called with the caret as pos, with the options the
\* caller resolved for the view or none, and with an offset or none
StartTracking ==
  \E start \in 0..caret, forced \in BOOLEAN, offset \in 0..1,
     config \in {None, get_options(view_syntax)} :
    /\ Result(start_tracking(World, start, caret, forced, config, offset))
    /\ op' = [name |-> "start_tracking", start |-> start, pos |-> caret,
              forced |-> forced, config |-> config, offset |-> offset]

\* ... with no config and no offset
StartTrackingDefault ==
  \E start \in 0..caret, forced \in BOOLEAN :
    /\ Result(start_tracking(World, start, caret, forced, None, 0))
    /\ op' = [name |-> "start_tracking", start |-> start, pos |-> caret,
              forced |-> forced, config |-> None, offset |-> 0]

\* ... for a region that is valid: not empty, or empty and forced
StartTrackingValid ==
  \E start \in 0..caret, forced \in BOOLEAN :
    /\ start < caret \/ forced
    /\ Result(start_tracking(World, start, caret, forced, None, 0))
    /\ op' = [name |-> "start_tracking", start |-> start, pos |-> caret,
              forced |-> forced, config |-> None, offset |-> 0]

\* ... with a configuration the caller supplies, which need not be the one
\* of the view (a stylesheet embedded in a markup document)
StartTrackingSupplied ==
  \E start \in 0..caret, forced \in BOOLEAN,
     config \in {get_options("html"), get_options("css")} :
    /\ Result(start_tracking(World, start, caret, forced, config, 0))
    /\ op' = [name |-> "start_tracking", start |-> start, pos |-> caret,
              forced |-> forced, config |-> config, offset |-> 0]

\* the keyword arguments a caller of start_tracking may pass: none, one of
\* them, or all three
Kwargs ==
  {<<>>,
   ("forced" :> TRUE),
   ("config" :> get_options("css")),
   ("offset" :> 1),
   ("forced" :> TRUE) @@ ("config" :> get_options("css")) @@ ("offset" :> 1)}

\* start_tracking is called for any region of the document, with any of the
\* keyword arguments
StartTrackingAt ==
  \E start \in 0..Len(text), kwargs \in Kwargs :
    \E pos \in start..Len(text) :
      /\ Result(start_tracking_kw(World, start, pos, kwargs))
      /\ op' = [name |-> "start_tracking", start |-> start, pos |-> pos,
                kwargs |-> kwargs]

StopTracking ==
  \E edit \in {"None", "Edit"} :
    /\ Result(stop_tracking(World, edit))
    /\ op' = [name |-> "stop_tracking", edit |-> edit]

\* The caller of get_tracker invokes a method of the registered tracker
ShowPreview ==
  \E arg \in {"None", "True", "False"} :
    /\ get_tracker(World) # None
    /\ Result(show_preview(World, arg))
    /\ op' = [name |-> "show_preview", as_phantom |-> arg]

\* ... with as_phantom left out
ShowPreviewDefault ==
  /\ get_tracker(World) # None
  /\ Result(show_preview(World, "None"))
  /\ op' = [name |-> "show_preview", as_phantom |-> "None"]

\* The user switches the abbreviation_preview setting
SetPreview ==
  /\ preview_setting' = ~preview_setting
  /\ op' = [name |-> "set_preview"]
  /\ UNCHANGED <<text, caret, view_syntax, view_regions, view_phantoms,
                 view_popup, cache, tracker, ret, calls, rendered, abbr_tree,
                 simple_result>>

HidePreview ==
  /\ get_tracker(World) # None
  /\ Result(hide_preview(World))
  /\ op' = [name |-> "hide_preview"]

\* What the view and the registered tracker show of the tracker's artifacts
Shown ==
  [decorated |-> ABBR_REGION_ID \in DOMAIN view_regions,
   indicated |-> ABBR_REGION_ID \in view_phantoms,
   popup |-> tracker.has_popup_preview,
   phantom |-> tracker.phantom_preview # "None"]

\* unmark is called on the registered tracker; the operation records whether
\* it follows another unmark, and what was shown before the first of them
Unmark ==
  /\ get_tracker(World) # None
  /\ Result(unmark(World))
  /\ op' = [name |-> "unmark", again |-> op.name = "unmark",
            had |-> IF op.name = "unmark" THEN op.had ELSE Shown]

Mark ==
  /\ get_tracker(World) # None
  /\ Result(mark(World))
  /\ op' = [name |-> "mark"]

\* update_abbreviation is called on the registered tracker; the operation
\* records whether it follows another update_abbreviation
UpdateAbbreviation ==
  /\ get_tracker(World) # None
  /\ Result(update_abbreviation(World))
  /\ op' = [name |-> "update_abbreviation",
            again |-> op.name = "update_abbreviation"]

Next ==
  \/ InsertText
  \/ DeleteText
  \/ ReplaceText
  \/ MoveCaret
  \/ StartTracking
  \/ StopTracking
  \/ ShowPreview

Spec == Init /\ [][Next]_vars

\* The change and selection handlers on a markup document
InitTrack == Init /\ view_syntax = "html" /\ preview_setting = TRUE

NextTrack ==
  \/ InsertText
  \/ DeleteText
  \/ ReplaceText
  \/ MoveCaret
  \/ StartTrackingDefault
  \/ StopTracking

SpecTrack == InitTrack /\ [][NextTrack]_vars

\* Previews of what is typed, on a markup or a stylesheet document
NextPreview ==
  \/ InsertText
  \/ StartTracking
  \/ ShowPreview

SpecPreview == Init /\ [][NextPreview]_vars

\* The life of a tracker with previews enabled: started, shown, carried
\* through edits and caret moves, replaced, stopped
InitLife == Init /\ preview_setting = TRUE

NextLife ==
  \/ InsertText
  \/ DeleteText
  \/ ReplaceText
  \/ MoveCaret
  \/ StartTrackingDefault
  \/ StopTracking
  \/ ShowPreview

SpecLife == InitLife /\ [][NextLife]_vars

\* The markers and previews of a tracker, put up and taken down
NextMarks ==
  \/ InsertText
  \/ StartTrackingDefault
  \/ ShowPreview
  \/ HidePreview
  \/ Mark
  \/ Unmark

SpecMarks == InitLife /\ [][NextMarks]_vars

\* The abbreviation of a tracker, parsed again while the text stays or grows
NextUpdate ==
  \/ InsertText
  \/ StartTrackingDefault
  \/ StartTrackingSupplied
  \/ UpdateAbbreviation

SpecUpdate == InitLife /\ [][NextUpdate]_vars

\* Selection changes on a markup view with or without a tracker and previews
NextSelect ==
  \/ InsertText
  \/ StartTrackingDefault
  \/ ShowPreview
  \/ SelectionChanged

SpecSelect == InitTrack /\ [][NextSelect]_vars

\* Previews asked for while the user switches the preview setting on and off
NextSetting ==
  \/ InsertText
  \/ StartTrackingDefault
  \/ ShowPreview
  \/ SetPreview

SpecSetting == Init /\ [][NextSetting]_vars

\* Trackers started one after the other on a markup view, with previews
\* shown in between
NextStart ==
  \/ InsertText
  \/ StartTrackingAt
  \/ ShowPreviewDefault

SpecStart == InitTrack /\ [][NextStart]_vars

\* Edits and caret moves on trackers that were started on a valid region
NextValid ==
  \/ InsertText
  \/ DeleteText
  \/ ReplaceText
  \/ MoveCaret
  \/ StartTrackingValid

SpecValid == InitTrack /\ [][NextValid]_vars

\* The classifier of parsed markup trees, run on every tree of a bounded set
Names == {None, Str(<<>>), Str(<<"d", "i", "v">>), Str(<<"!">>), Str(<<"h", "1">>)}

Attributes == {<<>>, <<[name |-> "class", value |-> "x"]>>}

\* nodes below the top level: a leaf, or nothing
Leaves == {<<>>, <<Node(Str(<<"d">>), <<>>, <<>>)>>}

TopNodes ==
  {Node(n, a, c) : n \in Names, a \in Attributes, c \in Leaves}

Trees ==
  {[children |-> kids] : kids \in UNION {[1..k -> TopNodes] : k \in 0..MaxKids}}

InitSimple ==
  /\ Init
  /\ view_syntax = "html"
  /\ preview_setting = TRUE

\* a caller hands a parsed tree to the classifier
Classify ==
  /\ simple_result = "None"
  /\ \E tree \in Trees :
       /\ abbr_tree' = tree
       /\ simple_result' =
            IF is_simple_markup_abbreviation(tree) THEN "True" ELSE "False"
  /\ op' = [name |-> "is_simple_markup_abbreviation"]
  /\ UNCHANGED <<text, caret, view_syntax, preview_setting, view_regions,
                 view_phantoms, view_popup, cache, tracker, ret, calls, rendered>>

NextSimple == Classify

SpecSimple == InitSimple /\ [][NextSimple]_vars

\* ------------------------------------------------------------- properties
\* handle_change has just run on a view that had a tracker
Handled == op.name = "handle_change" /\ op.before # None

\* ... and the caret last seen was within the region's bounds
HandledInside ==
  /\ Handled
  /\ op.before.region.a <= op.before.last_pos
  /\ op.before.last_pos <= op.before.region.b

\* the difference of document length handle_change has seen
Delta == Len(text) - op.before.last_length

\* C1: handle_change on a tracker whose last caret is before the region's
\* start or after its end unregisters the tracker, returns None and applies
\* nothing: region, last_pos and last_length stay as they were.
C1_OutsideStopsWithoutDelta ==
  (Handled /\ (op.before.last_pos < op.before.region.a
               \/ op.before.last_pos > op.before.region.b))
    => /\ VIEW_ID \notin cache
       /\ ret = "None"
       /\ tracker.region = op.before.region
       /\ tracker.last_pos = op.before.last_pos
       /\ tracker.last_length = op.before.last_length

\* a tracker dropped with the caret behind its region while an edit of the
\* length and a caret move were pending
C1_Witness ==
  /\ Handled
  /\ op.before.last_pos > op.before.region.b
  /\ Len(text) # op.before.last_length
  /\ caret # op.before.last_pos
  /\ VIEW_ID \notin cache
  /\ tracker.region = op.before.region

\* C2: a deletion (delta < 0) handled with the last caret in [a,b] shifts the
\* region to [a+delta, b+delta) when the caret was at a, and otherwise
\* shrinks it to [a, b+delta).
C2_Deletion ==
  (HandledInside /\ Delta < 0)
    => tracker.region =
         IF op.before.last_pos = op.before.region.a
         THEN Region(op.before.region.a + Delta, op.before.region.b + Delta)
         ELSE Region(op.before.region.a, op.before.region.b + Delta)

\* the region [1,3) with the caret at 1 after one character was deleted: [0,2)
C2_Witness ==
  /\ HandledInside
  /\ op.before.region = Region(1, 3)
  /\ op.before.last_pos = 1
  /\ Delta = 0 - 1
  /\ tracker.region = Region(0, 2)

\* C3: an insertion (delta > 0) handled with the last caret in [a,b] makes
\* the region [a, b+delta), a delta of 0 leaves it as it is; either way
\* last_length is the document length and last_pos the caret.
C3_Insertion ==
  (HandledInside /\ Delta >= 0)
    => /\ tracker.region = Region(op.before.region.a, op.before.region.b + Delta)
       /\ tracker.last_length = Len(text)
       /\ tracker.last_pos = caret

\* two characters inserted with the caret at the start of [0,1): [0,3)
C3_Witness ==
  /\ HandledInside
  /\ op.before.region = Region(0, 1)
  /\ op.before.last_pos = 0
  /\ Delta = 2
  /\ tracker.region = Region(0, 3)
  /\ tracker.last_pos = caret
  /\ caret # op.before.last_pos

\* The outcome of handle_change once the delta is applied: by the validity of
\* the region, the tracker is gone and None returned, or it is registered,
\* updated, marked and returned.
C4_AfterDelta ==
  HandledInside
    => IF tracker.region.a > tracker.region.b
          \/ (tracker.region.a = tracker.region.b /\ ~tracker.forced)
       THEN VIEW_ID \notin cache /\ ret = "None"
       ELSE /\ VIEW_ID \in cache
            /\ ret = "tracker"
            /\ calls = <<"handle_change", "update_abbreviation", "mark">>

\* A view without a tracker gets one only by start_tracking
C4_OnlyStartRegisters ==
  (VIEW_ID \notin cache /\ VIEW_ID \in cache') => op'.name = "start_tracking"

\* C4: once handle_change has applied the delta, a region that is not valid
\* (start > end, or empty and not forced) has the tracker unregistered and
\* None returned, and the view stays without a tracker until start_tracking
\* is called; otherwise the tracker stays registered, update_abbreviation and
\* then mark have run once each, and the tracker is returned.
C4_ValidityDecides == []C4_AfterDelta /\ [][C4_OnlyStartRegisters]_vars

\* an unforced region that an edit emptied, and the tracker gone
C4_Witness ==
  /\ HandledInside
  /\ op.before.region.a < op.before.region.b
  /\ tracker.region.a = tracker.region.b
  /\ ~tracker.forced
  /\ VIEW_ID \notin cache
  /\ ret = "None"

\* the characters an edit removed or inserted
EditSize == IF Delta < 0 THEN 0 - Delta ELSE Delta

\* the edit lies strictly before the region's start
EditBefore ==
  IF op.edit.kind = "delete"
  THEN op.edit.pos + EditSize <= op.before.region.a
  ELSE op.edit.pos < op.before.region.a

\* the edit overlaps or abuts the region
EditTouches ==
  IF op.edit.kind = "insert"
  THEN op.before.region.a <= op.edit.pos /\ op.edit.pos <= op.before.region.b
  ELSE /\ op.edit.pos <= op.before.region.b
       /\ op.edit.pos + EditSize >= op.before.region.a

\* C5: over the edits delivered to handle_change, the region's start moves
\* only for an edit strictly before the start and its end moves only for an
\* edit that overlaps or abuts the region.
C5_BoundsFollowEdits ==
  Handled
    => /\ (tracker.region.a # op.before.region.a => EditBefore)
       /\ (tracker.region.b # op.before.region.b => EditTouches)

\* show_preview has just run on a tracker that holds a parsed abbreviation
ShownParsed ==
  /\ op.name = "show_preview"
  /\ preview_setting
  /\ "simple" \in DOMAIN tracker.abbreviation

\* ... on a tracker that holds a parse error
ShownError ==
  /\ op.name = "show_preview"
  /\ preview_setting
  /\ "error" \in DOMAIN tracker.abbreviation

\* phantom rendering is in effect for the call: asked for, or by default on
\* a stylesheet configuration
PhantomInEffect ==
  IF op.as_phantom = "None"
  THEN tracker.config.type = "stylesheet"
  ELSE op.as_phantom = "True"

\* C6: show_preview on a tracker whose abbreviation is empty completes
\* without failure, renders nothing and leaves no preview artifact.
C6_EmptyRendersNothing ==
  (op.name = "show_preview" /\ tracker.abbreviation = None)
    => /\ ret = "None"
       /\ rendered = None
       /\ ~view_popup
       /\ ABBR_PREVIEW_ID \notin view_phantoms

\* C7: with previews enabled and a parsed abbreviation, show_preview renders
\* the preview iff the tracker is forced, phantom rendering is in effect or
\* the abbreviation is not simple; otherwise it renders nothing and calls
\* hide_preview.
C7_ParsedGate ==
  ShownParsed
    => /\ (rendered # None) <=>
            (tracker.forced \/ PhantomInEffect \/ ~tracker.abbreviation.simple)
       /\ rendered # None =>
            /\ rendered.kind \in {"markup-preview", "stylesheet-preview"}
            /\ rendered.snippet = tracker.abbreviation.preview
            /\ ret = "None"
       /\ rendered = None =>
            calls = <<"show_preview", "hide_preview">>

\* the markup abbreviation "d", not forced, no phantom: nothing rendered
C7_Witness ==
  /\ ShownParsed
  /\ tracker.abbreviation.abbr = <<"d">>
  /\ tracker.config.type = "markup"
  /\ ~tracker.forced
  /\ op.as_phantom = "None"
  /\ rendered = None
  /\ calls = <<"show_preview", "hide_preview">>

StylesheetParsed ==
  /\ tracker # None
  /\ "simple" \in DOMAIN tracker.abbreviation
  /\ tracker.config.type = "stylesheet"

\* C9 as stated: an abbreviation parsed under a stylesheet configuration is
\* not simple, and show_preview always renders it.
C9_StylesheetNeverSimple ==
  /\ StylesheetParsed => ~tracker.abbreviation.simple
  /\ (ShownParsed /\ tracker.config.type = "stylesheet") => rendered # None

\* C9 as amended: an abbreviation parsed under a stylesheet configuration is
\* flagged simple; show_preview renders it iff the tracker is forced or
\* phantom rendering is in effect (the default for a stylesheet), and an
\* unforced tracker asked for a popup renders nothing.
C9_StylesheetSimpleGate ==
  /\ StylesheetParsed => tracker.abbreviation.simple
  /\ (ShownParsed /\ tracker.config.type = "stylesheet")
       => ((rendered # None) <=> (tracker.forced \/ op.as_phantom # "False"))

\* a stylesheet preview asked for as a popup on an unforced tracker: nothing
C9_Witness ==
  /\ ShownParsed
  /\ tracker.config.type = "stylesheet"
  /\ ~tracker.forced
  /\ op.as_phantom = "False"
  /\ rendered = None
  /\ ~view_popup

\* the classifier has run on a tree with exactly one top-level node
ClassifiedSingle ==
  /\ op.name = "is_simple_markup_abbreviation"
  /\ Len(abbr_tree.children) = 1

\* C10 as stated: a single top-level node that carries an attribute or has a
\* child of its own is not simple, whatever its name.
C10_AttributeOrChildNotSimple ==
  (ClassifiedSingle
   /\ (abbr_tree.children[1].attributes # <<>>
       \/ abbr_tree.children[1].children # <<>>))
    => simple_result = "False"

\* C10 as amended: a single top-level node with a child of its own is not
\* simple, whatever its name and attributes; a childless one that carries an
\* attribute is not simple only if its name is neither empty nor alphabetic.
C10_ChildNotSimpleAttributeIgnored ==
  /\ (ClassifiedSingle /\ abbr_tree.children[1].children # <<>>)
       => simple_result = "False"
  /\ (ClassifiedSingle /\ abbr_tree.children[1].children = <<>>
      /\ abbr_tree.children[1].attributes # <<>>)
       => (simple_result = "False" <=>
             abbr_tree.children[1].name \in {Str(<<"!">>), Str(<<"h", "1">>)})

\* "div" with a class attribute and no children is classified simple
C10_Witness ==
  /\ ClassifiedSingle
  /\ abbr_tree.children[1].name = Str(<<"d", "i", "v">>)
  /\ abbr_tree.children[1].attributes # <<>>
  /\ abbr_tree.children[1].children = <<>>
  /\ simple_result = "True"

\* the classifier has run on some tree
Classified == op.name = "is_simple_markup_abbreviation"

\* the names of the enumerated trees that are absent, empty or alphabetic
PlainNames == {None, Str(<<>>), Str(<<"d", "i", "v">>)}

\* C11: is_simple_markup_abbreviation returns true exactly for a tree with no
\* top-level child, or with one top-level child that has no children and
\* whose name is absent, empty or entirely alphabetic; a tree with two or
\* more top-level children is never simple.
C11_SimpleExactly ==
  Classified
    => /\ (simple_result = "True") <=>
            \/ Len(abbr_tree.children) = 0
            \/ /\ Len(abbr_tree.children) = 1
               /\ abbr_tree.children[1].children = <<>>
               /\ abbr_tree.children[1].name \in PlainNames
       /\ simple_result \in {"True", "False"}
       /\ Len(abbr_tree.children) >= 2 => simple_result = "False"

\* two childless "div" nodes side by side are classified not simple
C11_Witness ==
  /\ Classified
  /\ Len(abbr_tree.children) = 2
  /\ \A i \in 1..2 :
       /\ abbr_tree.children[i].name = Str(<<"d", "i", "v">>)
       /\ abbr_tree.children[i].children = <<>>
  /\ simple_result = "False"

\* a presentation artifact of the tracker is in the view: the region
\* decoration, the forced indicator, the popup or the phantom preview
Decorated == ABBR_REGION_ID \in DOMAIN view_regions
Indicated == ABBR_REGION_ID \in view_phantoms
PhantomShown == ABBR_PREVIEW_ID \in view_phantoms

\* C12: whenever the registry holds no tracker for the view, none of the
\* tracker's presentation artifacts is left in it: no region decoration, no
\* forced indicator, no popup and no phantom preview.
C12_NoTrackerNoArtifact ==
  VIEW_ID \notin cache
    => ~Decorated /\ ~Indicated /\ ~view_popup /\ ~PhantomShown

\* what unmark leaves: no decoration, no forced indicator, the popup flag
\* down, no phantom preview handle, and no failure
C13_AfterUnmark ==
  op.name = "unmark"
    => /\ ~Decorated
       /\ ~Indicated
       /\ ~tracker.has_popup_preview
       /\ tracker.phantom_preview = "None"
       /\ ret = "None"

\* an unmark that follows an unmark changes nothing in the view, the
\* registry or the tracker
C13_SecondUnmark ==
  (op.name = "unmark" /\ op'.name = "unmark")
    => UNCHANGED <<text, caret, view_regions, view_phantoms, view_popup,
                   cache, tracker, ret>>

\* C13: unmark is idempotent: whatever the tracker shows (decoration, forced
\* indicator, popup, phantom preview), unmark leaves no decoration, no forced
\* indicator, the popup flag down and no phantom preview handle, a second
\* unmark right after leaves the same state, and neither call fails.
C13_UnmarkIdempotent == []C13_AfterUnmark /\ [][C13_SecondUnmark]_vars

\* a second unmark on a tracker that had decoration, indicator and popup up
C13_Witness ==
  /\ op.name = "unmark"
  /\ op.again
  /\ op.had.decorated /\ op.had.indicated /\ op.had.popup
  /\ ~Decorated /\ ~Indicated
  /\ ~tracker.has_popup_preview

\* update_abbreviation called on the registered tracker leaves its parse
\* state and its configuration as start_tracking or handle_change left them
C14_SameAgain ==
  op'.name = "update_abbreviation"
    => /\ tracker'.abbreviation = tracker.abbreviation
       /\ tracker'.config = tracker.config
       /\ ret' = "None"

\* the configuration of a registered tracker changes only by start_tracking
C14_ConfigKept ==
  (VIEW_ID \in cache /\ VIEW_ID \in cache' /\ op'.name # "start_tracking")
    => tracker'.config = tracker.config

\* a supplied configuration is the one the tracker has after start_tracking
C14_SuppliedKept ==
  (op.name = "start_tracking" /\ op.config # None)
    => tracker.config = op.config

\* C14: after start_tracking, update_abbreviation on unchanged text and
\* region yields the parse state and the configuration the tracker already
\* has, and so does a further call; a configuration, supplied or resolved,
\* is not changed by later update_abbreviation calls.
C14_UpdateIdempotent ==
  /\ [][C14_SameAgain]_vars
  /\ [][C14_ConfigKept]_vars
  /\ []C14_SuppliedKept

\* a second update_abbreviation in a row on a markup view, with a supplied
\* stylesheet configuration and a parsed abbreviation
C14_Witness ==
  /\ op.name = "update_abbreviation"
  /\ op.again
  /\ view_syntax = "html"
  /\ tracker.config = get_options("css")
  /\ "simple" \in DOMAIN tracker.abbreviation

\* the caret handle_selection_change was given, or the one it queried
SelectionCaret == IF "caret" \in DOMAIN op' THEN op'.caret ELSE caret'

\* a handle_selection_change step on a view with a tracker sets last_pos,
\* returns the tracker and leaves its other fields, the view's artifacts,
\* the text and the registry alone; without a tracker it returns None and
\* leaves all of them alone
C15_OnlyLastPos ==
  op'.name = "handle_selection_change"
    => /\ UNCHANGED <<text, view_regions, view_phantoms, view_popup, cache>>
       /\ IF VIEW_ID \in cache
          THEN /\ tracker' = [tracker EXCEPT !.last_pos = SelectionCaret]
               /\ ret' = "tracker"
          ELSE ret' = "None"

\* C15: handle_selection_change changes only last_pos: with a tracker it
\* sets last_pos to the caret supplied or queried and returns the tracker,
\* leaving region, last_length, forced, offset, config, abbreviation, the
\* presentation handles and the registry unchanged; with no tracker it
\* changes nothing and returns None.
C15_SelectionFrame == [][C15_OnlyLastPos]_vars

\* a caret passed that is not the view's, on a tracker with its popup up
C15_Witness ==
  /\ op.name = "handle_selection_change"
  /\ "caret" \in DOMAIN op
  /\ op.caret # caret
  /\ VIEW_ID \in cache
  /\ tracker.last_pos = op.caret
  /\ tracker.has_popup_preview
  /\ view_popup
  /\ ret = "tracker"

\* name is among the calls the last operation made
Made(name) == \E i \in 1..Len(calls) : calls[i] = name

\* a stop_tracking step on a view with a tracker calls unmark, empties the
\* registry and removes the text of the region iff the tracker is forced and
\* an edit is passed; on a view without a tracker it changes nothing
C16_StopStep ==
  op'.name = "stop_tracking"
    => IF VIEW_ID \in cache
       THEN /\ VIEW_ID \notin cache'
            /\ calls'[2] = "unmark"
            /\ text' = IF tracker.forced /\ op'.edit = "Edit"
                       THEN erase(text, tracker.region) ELSE text
            /\ (\E i \in 1..Len(calls') : calls'[i] = "view.erase")
                 <=> (tracker.forced /\ op'.edit = "Edit")
       ELSE /\ UNCHANGED <<text, caret, view_regions, view_phantoms,
                           view_popup, cache>>
            /\ ret' = "None"

\* a tracker that handle_change has dropped was unmarked and kept its text
C16_DroppedByChange ==
  (Handled /\ VIEW_ID \notin cache)
    => /\ Made("stop_tracking") /\ Made("unmark")
       /\ ~Made("view.erase")

\* C16: stop_tracking on a view with a tracker always calls unmark and
\* removes the tracker from the registry, and erases the region's text iff
\* the tracker is forced and an edit is passed; a forced tracker dropped by
\* handle_change, which passes no edit, keeps its text; stop_tracking on a
\* view without a tracker changes nothing.
C16_EraseIffForcedAndEdit == [][C16_StopStep]_vars /\ []C16_DroppedByChange

\* a forced tracker over a non-empty region stopped with an edit: erased
C16_Witness ==
  /\ op.name = "stop_tracking"
  /\ op.edit = "Edit"
  /\ Made("unmark") /\ Made("view.erase")
  /\ tracker.forced
  /\ tracker.region.a < tracker.region.b
  /\ tracker.region.a >= 0
  /\ VIEW_ID \notin cache
  /\ Len(text) < tracker.last_length

\* a show_preview step with the setting off renders nothing, makes no call
\* and leaves the view, the registry and the tracker as they were
C17_DisabledStep ==
  (op'.name = "show_preview" /\ ~preview_setting)
    => /\ UNCHANGED <<text, view_regions, view_phantoms, view_popup, cache,
                      tracker>>
       /\ rendered' = None
       /\ calls' = <<"show_preview">>
       /\ ret' = "None"

\* C17: with the preview setting disabled show_preview renders nothing,
\* whatever the abbreviation, forced and the target asked for are: no popup
\* and no phantom is shown, and the popup flag and the phantom preview handle
\* stay as they were before the call.
C17_DisabledRendersNothing == [][C17_DisabledStep]_vars

\* the setting is off, the tracker is forced and holds an error, and the
\* popup of an earlier call is still recorded
C17_Witness ==
  /\ op.name = "show_preview"
  /\ ~preview_setting
  /\ tracker.forced
  /\ "error" \in DOMAIN tracker.abbreviation
  /\ op.as_phantom = "True"
  /\ tracker.has_popup_preview
  /\ tracker.phantom_preview = "None"
  /\ rendered = None

\* the text update_abbreviation takes from the view for the tracker
Spanned ==
  LET s == substr(text, tracker.region)
  IN  IF tracker.offset # 0 THEN SubSeq(s, tracker.offset + 1, Len(s)) ELSE s

\* what the grammar parser of the tracker's configuration does with it
Attempt ==
  IF tracker.config.type = "stylesheet"
  THEN stylesheet_parse(Spanned) ELSE markup_parse(Spanned)

\* update_abbreviation has just run, by itself or within start_tracking or
\* handle_change, on text that the parser fails on
ParserFailed ==
  /\ VIEW_ID \in cache
  /\ op.name \in {"start_tracking", "handle_change", "update_abbreviation"}
  /\ Spanned # <<>>
  /\ Attempt.raised \in {"ScannerException", "TokenScannerException"}

\* C18: a scanner or token-scanner failure of the parser in
\* update_abbreviation does not propagate and does not end tracking: the
\* abbreviation holds the failure's message and position as its error, and
\* within handle_change the tracker stays registered with the region the
\* edit gave it, is marked and is returned.
C18_FailureCaptured ==
  ParserFailed
    => /\ "error" \in DOMAIN tracker.abbreviation
       /\ tracker.abbreviation.error.message = Attempt.message
       /\ tracker.abbreviation.error.pos = Attempt.pos
       /\ tracker.abbreviation.abbr = Spanned
       /\ ret \in {"None", "tracker"}
       /\ op.name = "handle_change"
            => /\ ret = "tracker"
               /\ tracker.region =
                    Region(op.before.region.a, op.before.region.b + Delta)
               /\ tracker.last_length = Len(text)
               /\ view_regions[ABBR_REGION_ID] = <<tracker.region>>
               /\ calls = <<"handle_change", "update_abbreviation", "mark">>

\* "d>" typed into a tracker with a stylesheet configuration: the token
\* scanner fails at 1 and the tracker is returned by handle_change
C18_Witness ==
  /\ ParserFailed
  /\ op.name = "handle_change"
  /\ tracker.config.type = "stylesheet"
  /\ Spanned = <<"d", ">">>
  /\ tracker.abbreviation.error.pos = 1
  /\ tracker.region = Region(0, 2)
  /\ op.before.region = Region(0, 1)
  /\ ret = "tracker"

\* what start_tracking leaves: the new tracker is the registered one and is
\* returned, built from the arguments, updated and then marked
C19_AfterStart ==
  (op.name = "start_tracking" /\ "kwargs" \in DOMAIN op)
    => /\ VIEW_ID \in cache
       /\ ret = "tracker"
       /\ tracker.region = Region(op.start, op.pos)
       /\ tracker.last_pos = op.pos
       /\ tracker.last_length = Len(text)
       /\ tracker.forced =
            IF "forced" \in DOMAIN op.kwargs THEN op.kwargs.forced ELSE FALSE
       /\ tracker.offset =
            IF "offset" \in DOMAIN op.kwargs THEN op.kwargs.offset ELSE 0
       /\ tracker.config =
            IF "config" \in DOMAIN op.kwargs THEN op.kwargs.config
            ELSE get_options(view_syntax)
       /\ calls = <<"start_tracking", "update_abbreviation", "mark">>
       /\ view_regions[ABBR_REGION_ID] = <<tracker.region>>
       /\ ~tracker.has_popup_preview
       /\ tracker.phantom_preview = "None"

\* a start_tracking step on a view that has a tracker takes down neither the
\* popup nor the phantom preview of the tracker it replaces
C19_ReplacedStep ==
  (op'.name = "start_tracking" /\ VIEW_ID \in cache)
    => /\ view_popup' = view_popup
       /\ (ABBR_PREVIEW_ID \in view_phantoms')
            = (ABBR_PREVIEW_ID \in view_phantoms)
       /\ \A i \in 1..Len(calls') :
            calls'[i] \notin {"unmark", "hide_preview", "view.hide_popup"}

\* C19: start_tracking(view, start, pos, ...) ends with the new tracker in
\* the registry and returned; its region is [start, pos), last_pos is pos,
\* last_length the document length, forced, offset and config are the ones
\* passed (forced False and offset 0 when left out, config resolved from the
\* view when left out), and update_abbreviation and then mark have run on
\* it; a tracker already registered is replaced with neither unmark nor
\* hide_preview called on it.
C19_StartInstalls == []C19_AfterStart /\ [][C19_ReplacedStep]_vars

\* a tracker whose popup is up is replaced by one started with no keyword
\* argument, away from the caret: the popup stays
C19_Witness ==
  /\ op.name = "start_tracking"
  /\ op.kwargs = <<>>
  /\ op.pos # caret
  /\ tracker.last_pos = op.pos
  /\ ~tracker.forced
  /\ ~tracker.has_popup_preview
  /\ view_popup

\* C20: a tracker that start_tracking built on a valid region (start < pos,
\* or start = pos and forced) has, for as long as it is registered through
\* handle_change and handle_selection_change events, a valid region: start
\* before end, or start equal to end and forced; a tracker with an invalid
\* region is never left registered by handle_change.
C20_RegisteredIsValid ==
  VIEW_ID \in cache
    => /\ tracker.region.a <= tracker.region.b
       /\ tracker.region.a = tracker.region.b => tracker.forced

\* a forced tracker whose region a deletion has emptied stays registered
C20_Witness ==
  /\ Handled
  /\ VIEW_ID \in cache
  /\ op.before.region.a < op.before.region.b
  /\ tracker.region.a = tracker.region.b
  /\ tracker.forced
  /\ Delta < 0

====
